---- MODULE Spec2Model ----
(***************************************************************************)
(* Model of the finance markets backend (src/finance.py): the paginated    *)
(* fetch and reassembly, the filter/format pipeline, the cache refresh      *)
(* protocol (update_lock, is_updating), the lazy initialization gate        *)
(* (init_lock, initialized) and the request handlers that read the cache.   *)
(***************************************************************************)
EXTENDS Integers, Sequences, FiniteSets, TLC

\* ------------------------------------------------------------------------
\* Bounds of the model
\* ------------------------------------------------------------------------
\* Number of request threads (concurrent HTTP requests in one process).
NumReq == 2
\* Number of force-refresh threads that can be alive at the same time.
MaxForce == 1
\* Refreshes are triggered by the periodic loop and by force_refresh only
\* while fewer than MaxCycles refresh executions have started.
MaxCycles == 2
\* Page size of one upstream fetch (finance.py:49 uses 100), scaled down.
limit == 2
\* Number of candidate offsets (finance.py:50 uses 5000 / 100 = 50), scaled.
NumPages == 3

\* ------------------------------------------------------------------------
\* Program constants
\* ------------------------------------------------------------------------
DefaultLimit == 100
MaxLimit == 200

\* ------------------------------------------------------------------------
\* Strings and the keyword filter
\* ------------------------------------------------------------------------
\* finance.py:88-97. Strings are sequences of one-character strings.
finance_keywords ==
    { <<"f","i","n","a","n","c","e">>,
      <<"f","i","n","a","n","c","i","a","l">>,
      <<"s","t","o","c","k">>,
      <<"s","t","o","c","k","s">>,
      <<"m","a","r","k","e","t">>,
      <<"t","r","a","d","i","n","g">>,
      <<"i","n","v","e","s","t","m","e","n","t">>,
      <<"i","n","v","e","s","t","o","r">>,
      <<"w","a","l","l"," ","s","t","r","e","e","t">>,
      <<"b","a","n","k","i","n","g">>,
      <<"b","a","n","k">>,
      <<"c","r","e","d","i","t">>,
      <<"l","o","a","n">>,
      <<"m","o","r","t","g","a","g","e">>,
      <<"b","o","n","d">>,
      <<"s","e","c","u","r","i","t","i","e","s">>,
      <<"e","t","f">>,
      <<"m","u","t","u","a","l"," ","f","u","n","d">>,
      <<"h","e","d","g","e"," ","f","u","n","d">>,
      <<"f","o","r","e","x">>,
      <<"c","u","r","r","e","n","c","y">>,
      <<"e","x","c","h","a","n","g","e">>,
      <<"c","o","m","m","o","d","i","t","y">>,
      <<"g","o","l","d">>,
      <<"s","i","l","v","e","r">>,
      <<"o","i","l">>,
      <<"f","u","t","u","r","e","s">>,
      <<"o","p","t","i","o","n","s">>,
      <<"d","e","r","i","v","a","t","i","v","e","s">>,
      <<"p","o","r","t","f","o","l","i","o">>,
      <<"d","i","v","i","d","e","n","d">>,
      <<"y","i","e","l","d">>,
      <<"i","n","t","e","r","e","s","t"," ","r","a","t","e">>,
      <<"f","e","d">>,
      <<"f","e","d","e","r","a","l"," ","r","e","s","e","r","v","e">>,
      <<"t","r","e","a","s","u","r","y">>,
      <<"d","e","b","t">>,
      <<"i","n","f","l","a","t","i","o","n">>,
      <<"s","p","5","0","0">>,
      <<"s","&","p">>,
      <<"d","o","w">>,
      <<"n","a","s","d","a","q">>,
      <<"n","y","s","e">>,
      <<"i","p","o">>,
      <<"m","e","r","g","e","r">>,
      <<"a","c","q","u","i","s","i","t","i","o","n">>,
      <<"e","a","r","n","i","n","g","s">>,
      <<"r","e","v","e","n","u","e">>,
      <<"p","r","o","f","i","t">> }

\* str.lower() on one character (finance.py:102).
LowerChar(c) ==
    CASE c = "A" -> "a"
      [] c = "B" -> "b"
      [] c = "C" -> "c"
      [] c = "D" -> "d"
      [] c = "E" -> "e"
      [] c = "F" -> "f"
      [] c = "G" -> "g"
      [] c = "H" -> "h"
      [] c = "I" -> "i"
      [] c = "J" -> "j"
      [] c = "K" -> "k"
      [] c = "L" -> "l"
      [] c = "M" -> "m"
      [] c = "N" -> "n"
      [] c = "O" -> "o"
      [] c = "P" -> "p"
      [] c = "Q" -> "q"
      [] c = "R" -> "r"
      [] c = "S" -> "s"
      [] c = "T" -> "t"
      [] c = "U" -> "u"
      [] c = "V" -> "v"
      [] c = "W" -> "w"
      [] c = "X" -> "x"
      [] c = "Y" -> "y"
      [] c = "Z" -> "z"
      [] OTHER -> c

Lower(s) == [i \in 1..Len(s) |-> LowerChar(s[i])]

\* Python's `keyword in tag_label` on strings: substring test.
Contains(s, k) ==
    \E i \in 1..(Len(s) - Len(k) + 1) : SubSeq(s, i, i + Len(k) - 1) = k

\* finance.py:101-107
is_finance(event) ==
    \E j \in 1..Len(event.tags) :
        \E keyword \in finance_keywords : Contains(Lower(event.tags[j].label), keyword)

RECURSIVE SelectSeq2(_, _)
\* finance.py:99-110: the order-preserving filter of all_events.
SelectSeq2(s, n) ==
    IF n = 0 THEN <<>>
    ELSE IF is_finance(s[n]) THEN Append(SelectSeq2(s, n - 1), s[n])
         ELSE SelectSeq2(s, n - 1)

finance_events_of(all_events) == SelectSeq2(all_events, Len(all_events))

\* ------------------------------------------------------------------------
\* Raw values and numeric coercion
\* ------------------------------------------------------------------------
\* A raw JSON field is [ty, v]: ty is "int", "float", "str" (a string that
\* float() parses to v), "badstr" (a string float() rejects), "none" (null)
\* or "missing" (key absent).
Num(n)    == [ty |-> "float", v |-> n]
NumStr(n) == [ty |-> "str", v |-> n]
BadStr    == [ty |-> "badstr", v |-> 0]
None      == [ty |-> "none", v |-> 0]
Missing   == [ty |-> "missing", v |-> 0]

\* isinstance(x, (int, float, str)), finance.py:118
IsNumOrStr(x) == x.ty \in {"int", "float", "str", "badstr"}

\* float(x) raises ValueError on a non-numeric string.
FloatRaises(x) == IsNumOrStr(x) /\ x.ty = "badstr"

\* finance.py:118-120, 130-131: float(x) if isinstance(...) else 0
Coerce(x) == IF IsNumOrStr(x) THEN x.v ELSE 0

\* finance.py:138-147. json.loads of a malformed string gives [].
ParsePrices(raw) ==
    IF raw.ty = "str" THEN raw.v
    ELSE IF raw.ty = "badstr" THEN <<>>
    ELSE IF raw.ty = "list" THEN raw.v
    ELSE <<>>

\* finance.py:134: a market is dropped when both are 0.
MarketDropped(market) == Coerce(market.volume) = 0 /\ Coerce(market.liquidity) = 0

\* finance.py:154-164
FormatMarket(market) ==
    [ outcomePrices |-> ParsePrices(market.outcomePrices),
      is_live       |-> market.active /\ ~market.closed,
      closed        |-> market.closed,
      active        |-> market.active,
      liquidity     |-> Coerce(market.liquidity),
      volume        |-> Coerce(market.volume) ]

RECURSIVE FormatMarkets(_, _)
\* finance.py:127-165
FormatMarkets(markets, n) ==
    IF n = 0 THEN <<>>
    ELSE IF MarketDropped(markets[n]) THEN FormatMarkets(markets, n - 1)
         ELSE Append(FormatMarkets(markets, n - 1), FormatMarket(markets[n]))

\* Variant without the event gate.
EventDropped_Never(event) == FALSE

\* finance.py:123: an event is dropped when both are 0.
EventDropped(event) == Coerce(event.volume) = 0 /\ Coerce(event.liquidity) = 0

\* An exception is raised while formatting this event (float() of a
\* non-numeric string at finance.py:118-120 or 130-131).
EventRaises(event) ==
    \/ FloatRaises(event.volume)
    \/ FloatRaises(event.volume24hr)
    \/ FloatRaises(event.liquidity)
    \/ /\ ~EventDropped(event)
       /\ \E j \in 1..Len(event.markets) :
             FloatRaises(event.markets[j].liquidity) \/ FloatRaises(event.markets[j].volume)

\* finance.py:171-189
FormatEvent(event, formatted_markets, rank) ==
    [ rank         |-> rank,
      id           |-> event.id,
      tag_labels   |-> [j \in 1..Len(event.tags) |-> event.tags[j].label],
      volume       |-> Coerce(event.volume),
      volume_24hr  |-> Coerce(event.volume24hr),
      liquidity    |-> Coerce(event.liquidity),
      market_count |-> Len(formatted_markets),
      markets      |-> formatted_markets,
      is_live      |-> event.active /\ ~event.closed ]

\* Variant that ranks by the position in finance_events.
RankOf_Index(done, i) == i

\* finance.py:172: rank is len(formatted_events) + 1 at the time of the
\* append; the index i of enumerate(finance_events, 1) (line 114) is unused.
RankOf(done, i) == Len(done) + 1

RECURSIVE FormatEvents(_, _)
\* finance.py:113-189: the loop over finance_events; formatted_events grows
\* in order.
FormatEvents(fin, n) ==
    IF n = 0 THEN <<>>
    ELSE LET done == FormatEvents(fin, n - 1)
             fm   == FormatMarkets(fin[n].markets, Len(fin[n].markets))
         IN  IF EventDropped(fin[n]) THEN done
             ELSE IF Len(fm) = 0 THEN done
             ELSE Append(done, FormatEvent(fin[n], fm, RankOf(done, n)))

\* finance.py:99-199: filter, format; any exception gives [] (line 195-199).
Transform(all_events) ==
    LET fin == finance_events_of(all_events)
    IN  IF \E j \in 1..Len(fin) : EventRaises(fin[j]) THEN <<>>
        ELSE FormatEvents(fin, Len(fin))

\* ------------------------------------------------------------------------
\* Upstream pages, fetch_batch and reassembly
\* ------------------------------------------------------------------------
\* finance.py:50
offsets == {k * limit : k \in 0..(NumPages - 1)}

\* finance.py:61-67: an upstream response is [err, body]; an error and an
\* empty (falsy) JSON body both give [].
fetch_batch(response) ==
    IF response.err THEN <<>>
    ELSE IF response.body # <<>> THEN response.body ELSE <<>>

\* finance.py:72-77: only non-empty batches are stored, keyed by offset.
results_of(upstream) ==
    [o \in {o \in offsets : fetch_batch(upstream[o]) # <<>>} |-> fetch_batch(upstream[o])]

RECURSIVE SortedKeys(_)
\* sorted(results.keys()), finance.py:80
SortedKeys(S) ==
    IF S = {} THEN <<>>
    ELSE LET m == CHOOSE x \in S : \A y \in S : x <= y
         IN  <<m>> \o SortedKeys(S \ {m})

RECURSIVE Walk(_, _, _)
\* finance.py:80-83: extend, then break after a page shorter than limit.
Walk(keys, results, acc) ==
    IF keys = <<>> THEN acc
    ELSE LET page == results[Head(keys)]
         IN  IF Len(page) < limit THEN acc \o page
             ELSE Walk(Tail(keys), results, acc \o page)

\* finance.py:69-83
Reassemble(upstream) ==
    LET results == results_of(upstream)
    IN  Walk(SortedKeys(DOMAIN results), results, <<>>)

\* finance.py:42-199
get_all_finance_events(upstream) == Transform(Reassemble(upstream))

\* ------------------------------------------------------------------------
\* Upstream inputs of the model
\* ------------------------------------------------------------------------
Str_Finance == <<"F","i","n","a","n","c","e">>
Str_Sports  == <<"S","p","o","r","t","s">>

\* A market with activity, outcome prices sent as a JSON string.
RawMarket ==
    [ volume |-> Num(3), liquidity |-> NumStr(1),
      outcomePrices |-> [ty |-> "str", v |-> <<1, 0>>],
      active |-> TRUE, closed |-> FALSE ]

\* A market without activity: volume absent, liquidity 0.
DeadMarket ==
    [ volume |-> Missing, liquidity |-> Num(0),
      outcomePrices |-> [ty |-> "list", v |-> <<1, 0>>],
      active |-> TRUE, closed |-> TRUE ]

\* The kinds of upstream record the model draws. "fin" and "other" are
\* well-formed (with and without a finance tag); the others carry a finance
\* tag and differ from "fin" in the fields named below.
EventKinds ==
    { "fin", "other",
      "dead",      \* volume 0 and liquidity null
      "nomkt",     \* its only market has no activity
      "nullvol",   \* volume null, volume24hr absent, market volume null
      "neg",       \* volume -1, liquidity 0
      "badprice",  \* outcomePrices is a string json.loads rejects
      "badvol",    \* volume is a non-numeric string
      "badmkt" }   \* market liquidity is a non-numeric string

RawVolume(kind) ==
    CASE kind = "dead"    -> Num(0)
      [] kind = "nullvol" -> None
      [] kind = "neg"     -> Num(-1)
      [] kind = "badvol"  -> BadStr
      [] OTHER            -> NumStr(5)

RawVolume24hr(kind) == IF kind = "nullvol" THEN Missing ELSE Num(1)

RawLiquidity(kind) ==
    CASE kind = "dead"    -> None
      [] kind = "neg"     -> Num(0)
      [] kind = "nullvol" -> NumStr(3)
      [] OTHER            -> Num(2)

RawMarkets(kind) ==
    CASE kind = "nomkt"    -> << DeadMarket >>
      [] kind = "nullvol"  -> << [RawMarket EXCEPT !.volume = None] >>
      [] kind = "badprice" -> << DeadMarket,
                                 [RawMarket EXCEPT !.outcomePrices =
                                                      [ty |-> "badstr", v |-> <<>>]] >>
      [] kind = "badmkt"   -> << [RawMarket EXCEPT !.liquidity = BadStr] >>
      [] OTHER             -> << RawMarket >>

\* The upstream record at absolute position id.
RawEvent(id, kind) ==
    [ id |-> id,
      tags |-> << [label |-> IF kind = "other" THEN Str_Sports ELSE Str_Finance] >>,
      volume |-> RawVolume(kind), volume24hr |-> RawVolume24hr(kind),
      liquidity |-> RawLiquidity(kind),
      markets |-> RawMarkets(kind),
      active |-> TRUE, closed |-> FALSE ]

\* A page of n records of one kind at offset o.
Page(o, n, kind) == [i \in 1..n |-> RawEvent(o + i, kind)]

\* Response codes of one page fetch: -1 is an error (timeout, HTTP error),
\* 0..limit is a page of that many finance records, limit + 1 is a full page
\* of records without a finance tag.
Codes == (-1)..(limit + 1)

Response(o, c) ==
    IF c = -1 THEN [err |-> TRUE, body |-> <<>>]
    ELSE IF c = limit + 1 THEN [err |-> FALSE, body |-> Page(o, limit, "other")]
    ELSE [err |-> FALSE, body |-> Page(o, c, "fin")]

\* Every combination of page responses.
Upstreams == { [o \in offsets |-> Response(o, c[o])] : c \in [offsets -> Codes] }

\* The upstream answers drawn in the concurrent specification: every fetch
\* fails; offset 0 fails and the other pages are full; offset 0 returns a
\* single record and the other pages are empty.
ScenarioCodes ==
    { [o \in offsets |-> -1],
      [o \in offsets |-> IF o = 0 THEN -1 ELSE limit],
      [o \in offsets |-> IF o = 0 THEN 1 ELSE 0] }

Scenarios == { [o \in offsets |-> Response(o, c[o])] : c \in ScenarioCodes }

NoUpstream == [o \in offsets |-> [err |-> FALSE, body |-> <<>>]]

\* The upstream answers drawn in the sequential specification: the page at
\* offset 0 is full, with its records of any kinds; the page at offset
\* `limit` fails or holds one record, kept or dropped; the later pages are
\* empty.
WideUpstream(ks, k2) ==
    [o \in offsets |->
        IF o = 0 THEN [err |-> FALSE, body |-> [i \in 1..limit |-> RawEvent(i, ks[i])]]
        ELSE IF o = limit /\ k2 = "error" THEN [err |-> TRUE, body |-> <<>>]
        ELSE IF o = limit THEN [err |-> FALSE, body |-> << RawEvent(limit + 1, k2) >>]
        ELSE [err |-> FALSE, body |-> <<>>]]

WideUpstreams ==
    { WideUpstream(ks, k2) : ks \in [1..limit -> EventKinds],
                             k2 \in {"fin", "dead", "error"} }

\* ------------------------------------------------------------------------
\* Threads and state
\* ------------------------------------------------------------------------
Req     == 1..NumReq
BgT     == NumReq + 1
ForceT  == (NumReq + 2)..(NumReq + 1 + MaxForce)
Threads == 1..(NumReq + 1 + MaxForce)

Kinds      == {"full", "page", "health", "refresh"}
\* (offset, limit) query parameters of the paginated requests.
PageArgs   == { <<1, 1>> }
\* The (offset, limit) query parameters drawn in the sequential
\* specification: offsets below, inside and past the list; limits below,
\* inside and above 1..200.
SeqPageArgs ==
    { <<-5, 0>>, <<-5, 100000>>, <<0, MaxLimit + 1>>,
      <<0, 1>>, <<1, 1>>, <<0, 2>>, <<1, MaxLimit>>, <<3, 1>>, <<3, MaxLimit>> }

VARIABLES
    cached_finance_events,  \* finance.py:32, the list object: [gen, events]
    last_update,            \* finance.py:33
    is_updating,            \* finance.py:36
    initialized,            \* finance.py:37
    update_lock,            \* finance.py:35, 0 or the holding thread
    init_lock,              \* finance.py:38, 0 or the holding thread
    pc,                     \* program point of each thread
    req,                    \* the request each request thread serves
    resp,                   \* the response it is building
    upstream,               \* responses of the page fetches of a thread's cycle
    events,                 \* local `events` of update_finance_events
    seen,                   \* history: newest gen any read has returned
    clock,                  \* logical time: ticks when a refresh builds its list
    pubLog,                 \* history: gen of each list assigned to the cache
    pubTs,                  \* history: the timestamp written with each
    initRuns,               \* history: refreshes started by ensure_initialized
    bgStarts,               \* history: background threads started
    gunicorn                \* the worker processes gunicorn forked, see below

vars == << cached_finance_events, last_update, is_updating, initialized,
           update_lock, init_lock, pc, req, resp, upstream, events, seen,
           clock, pubLog, pubTs, initRuns, bgStarts, gunicorn >>

EmptyList == [gen |-> 0, events |-> <<>>]

NoReq == [kind |-> "none", offset |-> 0, limit |-> 0]

NoResp ==
    [ ready |-> FALSE, success |-> TRUE, initializing |-> FALSE,
      data |-> <<>>, src |-> 0, srclen |-> 0, count |-> 0, last_update |-> 0,
      total |-> 0, has_more |-> FALSE, offset |-> 0, limit |-> 0,
      is_updating |-> FALSE, initialized |-> FALSE ]

\* gunicorn_config.py:9: the number of worker processes.
workers == 2

Workers == 1..workers

\* finance.py:31-38: the module globals as the import leaves them. With
\* preload_app (gunicorn_config.py:25) the master imports the module once and
\* every worker starts from a copy of these; the import runs no refresh.
ImportedGlobals ==
    [ forked |-> TRUE, initialized |-> FALSE, is_updating |-> FALSE,
      cache |-> EmptyList, last_update |-> 0, initRuns |-> 0, served |-> 0 ]

\* The master before a worker is forked; fetches counts the refreshes run by
\* all workers together.
NotForked ==
    [ fetches |-> 0,
      proc |-> [w \in Workers |-> [ImportedGlobals EXCEPT !.forked = FALSE]] ]

\* time.time()
Time == clock

Init ==
    /\ cached_finance_events = EmptyList
    /\ last_update = 0
    /\ is_updating = FALSE
    /\ initialized = FALSE
    /\ update_lock = 0
    /\ init_lock = 0
    /\ pc = [t \in Threads |-> IF t \in Req THEN "idle"
                               ELSE IF t = BgT THEN "bg_off" ELSE "f_free"]
    /\ req = [t \in Req |-> NoReq]
    /\ resp = [t \in Req |-> NoResp]
    /\ upstream = [t \in Threads |-> NoUpstream]
    /\ events = [t \in Threads |-> EmptyList]
    /\ seen = 0
    /\ clock = 0
    /\ pubLog = <<>>
    /\ pubTs = <<>>
    /\ initRuns = 0
    /\ bgStarts = 0
    /\ gunicorn = NotForked

\* Variant whose periodic loop ends when its call returns.
RetPc_LoopEnds(t) == IF t \in Req THEN "ei_bg" ELSE IF t = BgT THEN "bg_off" ELSE "f_free"

\* Where update_finance_events returns to: ensure_initialized (line 249),
\* the periodic loop (line 228), or the end of a force-refresh thread.
RetPc(t) == IF t \in Req THEN "ei_bg" ELSE IF t = BgT THEN "bg_sleep" ELSE "f_free"

\* The view function a request is routed to after before_request.
HandlerPc(t) ==
    CASE req[t].kind = "full"    -> "h_full"
      [] req[t].kind = "page"    -> "h_page"
      [] req[t].kind = "health"  -> "h_health"
      [] req[t].kind = "refresh" -> "h_refresh"

\* ------------------------------------------------------------------------
\* A request arrives
\* ------------------------------------------------------------------------
\* A request of a kind in K arrives, with query parameters in A when it is
\* a paginated one.
RequestFrom(t, K, A) ==
    /\ pc[t] = "idle"
    /\ \E k \in K :
          \E a \in (IF k = "page" THEN A ELSE { <<0, 0>> }) :
             req' = [req EXCEPT ![t] = [kind |-> k, offset |-> a[1], limit |-> a[2]]]
    /\ pc' = [pc EXCEPT ![t] = "ei_check"]
    /\ resp' = [resp EXCEPT ![t] = NoResp]
    /\ UNCHANGED << cached_finance_events, last_update, is_updating, initialized,
                    update_lock, init_lock, upstream, events, seen,
                    clock, pubLog, pubTs, initRuns, bgStarts >>
    /\ UNCHANGED gunicorn

Request(t) == RequestFrom(t, Kinds, PageArgs)

\* ------------------------------------------------------------------------
\* ensure_initialized (before_request)
\* ------------------------------------------------------------------------
\* finance.py:236-237
EiCheck(t) ==
    /\ pc[t] = "ei_check"
    /\ pc' = [pc EXCEPT ![t] = IF initialized THEN HandlerPc(t) ELSE "ei_lock"]
    /\ UNCHANGED << cached_finance_events, last_update, is_updating, initialized,
                    update_lock, init_lock, req, resp, upstream, events, seen,
                    clock, pubLog, pubTs, initRuns, bgStarts >>
    /\ UNCHANGED gunicorn

\* Variant without the second check under the lock.
InitDoneUnderLock_Skipped == FALSE

\* finance.py:240: the second check, made while holding init_lock.
InitDoneUnderLock == initialized

\* finance.py:239-247: take init_lock; return if initialized (releasing the
\* lock), else go on to call update_finance_events.
EiAcquire(t) ==
    /\ pc[t] = "ei_lock"
    /\ init_lock = 0
    /\ IF InitDoneUnderLock
          THEN /\ pc' = [pc EXCEPT ![t] = HandlerPc(t)]
               /\ UNCHANGED init_lock
          ELSE /\ pc' = [pc EXCEPT ![t] = "u_enter"]
               /\ init_lock' = t
    /\ UNCHANGED << cached_finance_events, last_update, is_updating, initialized,
                    update_lock, req, resp, upstream, events, seen,
                    clock, pubLog, pubTs, initRuns, bgStarts >>
    /\ UNCHANGED gunicorn

\* finance.py:249-250
EiStartBg(t) ==
    /\ pc[t] = "ei_bg"
    /\ pc' = [pc EXCEPT ![t] = "ei_set", ![BgT] = "bg_sleep"]
    /\ bgStarts' = bgStarts + 1
    /\ UNCHANGED << cached_finance_events, last_update, is_updating, initialized,
                    update_lock, init_lock, req, resp, upstream, events, seen,
                    clock, pubLog, pubTs, initRuns >>
    /\ UNCHANGED gunicorn

\* Variant that returns without releasing init_lock.
InitLockAfterReturn_Held(t) == t

\* finance.py:239, 254: leaving the `with init_lock:` block releases the lock.
InitLockAfterReturn(t) == 0

\* finance.py:252-254: set the flag and leave the `with init_lock` block.
EiSet(t) ==
    /\ pc[t] = "ei_set"
    /\ initialized' = TRUE
    /\ init_lock' = InitLockAfterReturn(t)
    /\ pc' = [pc EXCEPT ![t] = HandlerPc(t)]
    /\ UNCHANGED << cached_finance_events, last_update, is_updating,
                    update_lock, req, resp, upstream, events, seen,
                    clock, pubLog, pubTs, initRuns, bgStarts >>
    /\ UNCHANGED gunicorn

\* ------------------------------------------------------------------------
\* update_finance_events
\* ------------------------------------------------------------------------
\* Variant that never sees a refresh in progress.
AlreadyUpdating_Ignored == FALSE

\* finance.py:206: the test of the in-progress flag under update_lock.
AlreadyUpdating == is_updating

\* finance.py:205-209: under update_lock, skip when a refresh is running,
\* else claim the refresh.
UEnter(t) ==
    /\ pc[t] = "u_enter"
    /\ update_lock = 0
    /\ IF AlreadyUpdating
          THEN /\ pc' = [pc EXCEPT ![t] = "u_skip"]
               /\ UNCHANGED << is_updating, initRuns >>
          ELSE /\ is_updating' = TRUE
               /\ pc' = [pc EXCEPT ![t] = "u_fetch"]
               /\ initRuns' = IF t \in Req THEN initRuns + 1 ELSE initRuns
    /\ UNCHANGED << cached_finance_events, last_update, initialized,
                    update_lock, init_lock, req, resp, upstream, events, seen,
                    clock, pubLog, pubTs, bgStarts >>
    /\ UNCHANGED gunicorn

\* finance.py:207-208: "Already updating, skipping"; return.
USkip(t) ==
    /\ pc[t] = "u_skip"
    /\ pc' = [pc EXCEPT ![t] = RetPc(t)]
    /\ UNCHANGED << cached_finance_events, last_update, is_updating, initialized,
                    update_lock, init_lock, req, resp, upstream, events, seen,
                    clock, pubLog, pubTs, initRuns, bgStarts >>
    /\ UNCHANGED gunicorn

\* finance.py:212: events = get_all_finance_events(); the page fetches
\* complete with some responses and a new list object is built.
FetchFrom(t, U) ==
    /\ pc[t] = "u_fetch"
    /\ \E u \in U :
          /\ upstream' = [upstream EXCEPT ![t] = u]
          /\ events' = [events EXCEPT ![t] =
                           [gen |-> clock + 1, events |-> get_all_finance_events(u)]]
    /\ clock' = clock + 1
    /\ pc' = [pc EXCEPT ![t] = "u_test"]
    /\ UNCHANGED << cached_finance_events, last_update, is_updating, initialized,
                    update_lock, init_lock, req, resp, seen,
                    pubLog, pubTs, initRuns, bgStarts >>
    /\ UNCHANGED gunicorn

Fetch(t) == FetchFrom(t, Scenarios)

\* Variant that publishes whatever the fetch returned.
Usable_Always(evs) == TRUE

\* finance.py:213: `if events:`
Usable(evs) == evs # <<>>

\* What the path without usable data does to is_updating before the
\* function returns (finance.py:213-222: nothing; the except branch is not
\* taken because get_all_finance_events catches every Exception).
FlagAfterEmpty(flag) == flag

\* Variant that rolls the cache back to its initial empty list.
CacheAfterEmpty_Reset(cache) == [gen |-> 0, events |-> <<>>]

\* What the path without usable data does to the cache (finance.py:213:
\* the assignment at line 215 is not reached; the cache is left as it is).
CacheAfterEmpty(cache) == cache

\* finance.py:213: with events, go on to publish; without, fall out of the
\* try block and return.
UTest(t) ==
    /\ pc[t] = "u_test"
    /\ IF Usable(events[t].events)
          THEN /\ pc' = [pc EXCEPT ![t] = "u_pub1"]
               /\ UNCHANGED << upstream, events, is_updating, cached_finance_events >>
          ELSE /\ pc' = [pc EXCEPT ![t] = RetPc(t)]
               /\ upstream' = [upstream EXCEPT ![t] = NoUpstream]
               /\ events' = [events EXCEPT ![t] = EmptyList]
               /\ is_updating' = FlagAfterEmpty(is_updating)
               /\ cached_finance_events' = CacheAfterEmpty(cached_finance_events)
    /\ UNCHANGED << last_update, initialized,
                    update_lock, init_lock, req, resp, seen,
                    clock, pubLog, pubTs, initRuns, bgStarts >>
    /\ UNCHANGED gunicorn

\* finance.py:214-215: take update_lock, assign the cache.
UPub1(t) ==
    /\ pc[t] = "u_pub1"
    /\ update_lock = 0
    /\ update_lock' = t
    /\ cached_finance_events' = events[t]
    /\ pubLog' = Append(pubLog, events[t].gen)
    /\ pc' = [pc EXCEPT ![t] = "u_pub2"]
    /\ UNCHANGED << last_update, is_updating, initialized, init_lock,
                    req, resp, upstream, events, seen, clock, pubTs,
                    initRuns, bgStarts >>
    /\ UNCHANGED gunicorn

\* finance.py:216
UPub2(t) ==
    /\ pc[t] = "u_pub2"
    /\ last_update' = Time
    /\ pubTs' = Append(pubTs, Time)
    /\ pc' = [pc EXCEPT ![t] = "u_pub3"]
    /\ UNCHANGED << cached_finance_events, is_updating, initialized,
                    update_lock, init_lock, req, resp, upstream, events, seen,
                    clock, pubLog, initRuns, bgStarts >>
    /\ UNCHANGED gunicorn

\* finance.py:217-218: clear the flag, leave the lock, return.
UPub3(t) ==
    /\ pc[t] = "u_pub3"
    /\ is_updating' = FALSE
    /\ update_lock' = 0
    /\ pc' = [pc EXCEPT ![t] = RetPc(t)]
    /\ upstream' = [upstream EXCEPT ![t] = NoUpstream]
    /\ events' = [events EXCEPT ![t] = EmptyList]
    /\ UNCHANGED << cached_finance_events, last_update, initialized, init_lock,
                    req, resp, seen, clock, pubLog, pubTs, initRuns, bgStarts >>
    /\ UNCHANGED gunicorn

\* ------------------------------------------------------------------------
\* background_updater
\* ------------------------------------------------------------------------
\* finance.py:227-230: the sleep ends and update_finance_events is called.
\* The guard on clock bounds the model.
BgWake ==
    /\ pc[BgT] = "bg_sleep"
    /\ clock < MaxCycles
    /\ pc' = [pc EXCEPT ![BgT] = "u_enter"]
    /\ UNCHANGED << cached_finance_events, last_update, is_updating, initialized,
                    update_lock, init_lock, req, resp, upstream, events, seen,
                    clock, pubLog, pubTs, initRuns, bgStarts >>
    /\ UNCHANGED gunicorn

\* ------------------------------------------------------------------------
\* Request handlers
\* ------------------------------------------------------------------------
\* finance.py:264-270 and 284-289
InitializingResponse == [NoResp EXCEPT !.ready = TRUE, !.initializing = TRUE]

Min(a, b) == IF a < b THEN a ELSE b

\* Variant whose slice starts one element late.
Slice_Late(lst, start, end) == SubSeq(lst, start + 2, Min(end + 1, Len(lst)))

\* Python's lst[start:end] for 0 <= start <= end.
Slice(lst, start, end) == SubSeq(lst, start + 1, Min(end, Len(lst)))

\* finance.py:263-274: the initialized test, then the load of the cache
\* for the 'data' field.
FullData(t) ==
    /\ pc[t] = "h_full"
    /\ IF ~initialized
          THEN /\ resp' = [resp EXCEPT ![t] = InitializingResponse]
               /\ pc' = [pc EXCEPT ![t] = "idle"]
               /\ UNCHANGED seen
          ELSE /\ resp' = [resp EXCEPT ![t] =
                              [NoResp EXCEPT !.data = cached_finance_events.events,
                                             !.src = cached_finance_events.gen,
                                             !.srclen = Len(cached_finance_events.events)]]
               /\ seen' = IF cached_finance_events.gen > seen
                             THEN cached_finance_events.gen ELSE seen
               /\ pc' = [pc EXCEPT ![t] = "h_full2"]
    /\ UNCHANGED << cached_finance_events, last_update, is_updating, initialized,
                    update_lock, init_lock, req, upstream, events,
                    clock, pubLog, pubTs, initRuns, bgStarts >>
    /\ UNCHANGED gunicorn

\* finance.py:275: the second load of the cache, for 'count'.
FullCount(t) ==
    /\ pc[t] = "h_full2"
    /\ resp' = [resp EXCEPT ![t].count = Len(cached_finance_events.events)]
    /\ pc' = [pc EXCEPT ![t] = "h_full3"]
    /\ UNCHANGED << cached_finance_events, last_update, is_updating, initialized,
                    update_lock, init_lock, req, upstream, events, seen,
                    clock, pubLog, pubTs, initRuns, bgStarts >>
    /\ UNCHANGED gunicorn

\* finance.py:276-278
FullLast(t) ==
    /\ pc[t] = "h_full3"
    /\ resp' = [resp EXCEPT ![t].last_update = last_update, ![t].ready = TRUE]
    /\ pc' = [pc EXCEPT ![t] = "idle"]
    /\ UNCHANGED << cached_finance_events, last_update, is_updating, initialized,
                    update_lock, init_lock, req, upstream, events, seen,
                    clock, pubLog, pubTs, initRuns, bgStarts >>
    /\ UNCHANGED gunicorn

\* finance.py:294-295
ClampOffset(o) == IF o < 0 THEN 0 ELSE o

\* Variant that clamps a too-large limit to the maximum.
ClampLimit_ToMax(l) == IF l < 1 THEN DefaultLimit ELSE IF l > MaxLimit THEN MaxLimit ELSE l

\* finance.py:296-297
ClampLimit(l) == IF l < 1 \/ l > MaxLimit THEN DefaultLimit ELSE l

\* finance.py:283-302: the initialized test, the parameters, the slice.
PageSlice(t) ==
    /\ pc[t] = "h_page"
    /\ IF ~initialized
          THEN /\ resp' = [resp EXCEPT ![t] = InitializingResponse]
               /\ pc' = [pc EXCEPT ![t] = "idle"]
               /\ UNCHANGED seen
          ELSE LET o == ClampOffset(req[t].offset)
                   l == ClampLimit(req[t].limit)
                   paginated_events == Slice(cached_finance_events.events, o, o + l)
               IN  /\ resp' = [resp EXCEPT ![t] =
                                  [NoResp EXCEPT !.data = paginated_events,
                                                 !.count = Len(paginated_events),
                                                 !.offset = o,
                                                 !.limit = l,
                                                 !.src = cached_finance_events.gen,
                                             !.srclen = Len(cached_finance_events.events)]]
                   /\ seen' = IF cached_finance_events.gen > seen
                             THEN cached_finance_events.gen ELSE seen
                   /\ pc' = [pc EXCEPT ![t] = "h_page2"]
    /\ UNCHANGED << cached_finance_events, last_update, is_updating, initialized,
                    update_lock, init_lock, req, upstream, events,
                    clock, pubLog, pubTs, initRuns, bgStarts >>
    /\ UNCHANGED gunicorn

\* finance.py:303
PageMore(t) ==
    /\ pc[t] = "h_page2"
    /\ resp' = [resp EXCEPT ![t].has_more =
                   (resp[t].offset + resp[t].limit) < Len(cached_finance_events.events)]
    /\ pc' = [pc EXCEPT ![t] = "h_page3"]
    /\ UNCHANGED << cached_finance_events, last_update, is_updating, initialized,
                    update_lock, init_lock, req, upstream, events, seen,
                    clock, pubLog, pubTs, initRuns, bgStarts >>
    /\ UNCHANGED gunicorn

\* finance.py:305-314
PageTotal(t) ==
    /\ pc[t] = "h_page3"
    /\ resp' = [resp EXCEPT ![t].total = Len(cached_finance_events.events),
                            ![t].ready = TRUE]
    /\ pc' = [pc EXCEPT ![t] = "idle"]
    /\ UNCHANGED << cached_finance_events, last_update, is_updating, initialized,
                    update_lock, init_lock, req, upstream, events, seen,
                    clock, pubLog, pubTs, initRuns, bgStarts >>
    /\ UNCHANGED gunicorn

\* finance.py:321-324: the three reads made while holding update_lock.
HealthLocked(t) ==
    /\ pc[t] = "h_health"
    /\ update_lock = 0
    /\ resp' = [resp EXCEPT ![t] =
                   [NoResp EXCEPT !.is_updating = is_updating,
                                  !.count = Len(cached_finance_events.events)]]
    /\ pc' = [pc EXCEPT ![t] = "h_health2"]
    /\ UNCHANGED << cached_finance_events, last_update, is_updating, initialized,
                    update_lock, init_lock, req, upstream, events, seen,
                    clock, pubLog, pubTs, initRuns, bgStarts >>
    /\ UNCHANGED gunicorn

\* finance.py:326-336: initialized and last_update are read after the lock.
HealthResp(t) ==
    /\ pc[t] = "h_health2"
    /\ resp' = [resp EXCEPT ![t].initialized = initialized,
                            ![t].last_update = last_update,
                            ![t].ready = TRUE]
    /\ pc' = [pc EXCEPT ![t] = "idle"]
    /\ UNCHANGED << cached_finance_events, last_update, is_updating, initialized,
                    update_lock, init_lock, req, upstream, events, seen,
                    clock, pubLog, pubTs, initRuns, bgStarts >>
    /\ UNCHANGED gunicorn

\* Variant that calls update_finance_events in the request thread.
SpawnRefresh_Inline(t, f) == [pc EXCEPT ![t] = "u_enter"]

\* finance.py:341-342: where the refresh scheduled by force_refresh runs:
\* thread f is started on update_finance_events, the request thread t goes
\* on to the acknowledgement.
SpawnRefresh(t, f) == [pc EXCEPT ![f] = "u_enter", ![t] = "idle"]

\* finance.py:339-343. The two guards bound the model (a free thread slot,
\* fewer than MaxCycles lists built); the code starts the thread always.
ForceRefresh(t) ==
    /\ pc[t] = "h_refresh"
    /\ clock < MaxCycles
    /\ \E f \in ForceT :
          /\ pc[f] = "f_free"
          /\ pc' = SpawnRefresh(t, f)
    /\ resp' = [resp EXCEPT ![t] = [NoResp EXCEPT !.ready = TRUE]]
    /\ UNCHANGED << cached_finance_events, last_update, is_updating, initialized,
                    update_lock, init_lock, req, upstream, events, seen,
                    clock, pubLog, pubTs, initRuns, bgStarts >>
    /\ UNCHANGED gunicorn

Next ==
    \/ \E t \in Req : Request(t)
    \/ \E t \in Req : EiCheck(t)
    \/ \E t \in Req : EiAcquire(t)
    \/ \E t \in Req : EiStartBg(t)
    \/ \E t \in Req : EiSet(t)
    \/ \E t \in Threads : UEnter(t)
    \/ \E t \in Threads : USkip(t)
    \/ \E t \in Threads : Fetch(t)
    \/ \E t \in Threads : UTest(t)
    \/ \E t \in Threads : UPub1(t)
    \/ \E t \in Threads : UPub2(t)
    \/ \E t \in Threads : UPub3(t)
    \/ BgWake
    \/ \E t \in Req : FullData(t)
    \/ \E t \in Req : FullCount(t)
    \/ \E t \in Req : FullLast(t)
    \/ \E t \in Req : PageSlice(t)
    \/ \E t \in Req : PageMore(t)
    \/ \E t \in Req : PageTotal(t)
    \/ \E t \in Req : HealthLocked(t)
    \/ \E t \in Req : HealthResp(t)
    \/ \E t \in Req : ForceRefresh(t)

Spec == Init /\ [][Next]_vars

\* ------------------------------------------------------------------------
\* The fair specification: every thread inside ensure_initialized or
\* update_finance_events is scheduled again (OS threads), every page fetch
\* ends (requests.get has a timeout, finance.py:63), and a lock that stays
\* free is obtained.
\* ------------------------------------------------------------------------
CallStep(t) ==
    \/ EiCheck(t)
    \/ EiAcquire(t)
    \/ EiStartBg(t)
    \/ EiSet(t)
    \/ UEnter(t)
    \/ USkip(t)
    \/ UTest(t)
    \/ UPub1(t)
    \/ UPub2(t)
    \/ UPub3(t)

\* Every page fetch ends: no thread stays in get_all_finance_events for
\* ever (Fetch is the one step that leaves "u_fetch" and is always enabled
\* there, so this is weak fairness of Fetch).
FetchEnds(t) == []<>(pc[t] # "u_fetch")

\* The requests drawn are the two that take part in the locking: health
\* checks (update_lock) and forced refreshes (a thread in
\* update_finance_events); the full and paginated reads take no lock after
\* ensure_initialized.
FairRequest(t) == RequestFrom(t, {"health", "refresh"}, PageArgs)

NextFair ==
    \/ \E t \in Req : FairRequest(t)
    \/ \E t \in Req : EiCheck(t)
    \/ \E t \in Req : EiAcquire(t)
    \/ \E t \in Req : EiStartBg(t)
    \/ \E t \in Req : EiSet(t)
    \/ \E t \in Threads : UEnter(t)
    \/ \E t \in Threads : USkip(t)
    \/ \E t \in Threads : Fetch(t)
    \/ \E t \in Threads : UTest(t)
    \/ \E t \in Threads : UPub1(t)
    \/ \E t \in Threads : UPub2(t)
    \/ \E t \in Threads : UPub3(t)
    \/ BgWake
    \/ \E t \in Req : HealthLocked(t)
    \/ \E t \in Req : HealthResp(t)
    \/ \E t \in Req : ForceRefresh(t)

SpecFair ==
    /\ Init
    /\ [][NextFair]_vars
    /\ \A t \in Threads : WF_vars(CallStep(t))
    /\ \A t \in Threads : FetchEnds(t)

\* ------------------------------------------------------------------------
\* The sequential specification: one request thread, the periodic thread
\* still in its first sleep, upstream answers and query parameters drawn
\* from the wide sets.
\* ------------------------------------------------------------------------
SeqT == 1

SeqRequest == RequestFrom(SeqT, {"full", "page"}, SeqPageArgs)

SeqFetch == FetchFrom(SeqT, WideUpstreams)

NextSeq ==
    \/ SeqRequest
    \/ EiCheck(SeqT)
    \/ EiAcquire(SeqT)
    \/ EiStartBg(SeqT)
    \/ EiSet(SeqT)
    \/ UEnter(SeqT)
    \/ SeqFetch
    \/ UTest(SeqT)
    \/ UPub1(SeqT)
    \/ UPub2(SeqT)
    \/ UPub3(SeqT)
    \/ FullData(SeqT)
    \/ FullCount(SeqT)
    \/ FullLast(SeqT)
    \/ PageSlice(SeqT)
    \/ PageMore(SeqT)
    \/ PageTotal(SeqT)

SpecSeq == Init /\ [][NextSeq]_vars

\* ------------------------------------------------------------------------
\* The worker processes under gunicorn (gunicorn_config.py). Each worker is
\* a process of its own, with its own copy of the module globals; a sync
\* worker serves one request at a time, so a worker's steps are whole calls.
\* ------------------------------------------------------------------------
processVars == << cached_finance_events, last_update, is_updating, initialized,
                  update_lock, init_lock, pc, req, resp, upstream, events, seen,
                  clock, pubLog, pubTs, initRuns, bgStarts >>

\* gunicorn_config.py:9, 25: the master forks worker w, which starts from a
\* copy of the master's globals.
Fork(w) ==
    /\ ~gunicorn.proc[w].forked
    /\ gunicorn' = [gunicorn EXCEPT !.proc[w] = ImportedGlobals]
    /\ UNCHANGED processVars

\* finance.py:201-222 as one call in worker process p, the n-th refresh of
\* the deployment, with upstream answers u.
WorkerUpdate(p, u, n) ==
    IF p.is_updating THEN p
    ELSE LET evs == get_all_finance_events(u)
         IN  IF Usable(evs)
                THEN [p EXCEPT !.cache = [gen |-> n, events |-> evs],
                               !.last_update = n,
                               !.is_updating = FALSE]
                ELSE [p EXCEPT !.is_updating = FlagAfterEmpty(TRUE)]

\* finance.py:232-259: the first request a worker serves runs
\* ensure_initialized in that worker, then its handler reads the cache.
WorkerInit(w) ==
    /\ gunicorn.proc[w].forked
    /\ ~gunicorn.proc[w].initialized
    /\ \E u \in Scenarios :
          LET n == gunicorn.fetches + 1
              p == WorkerUpdate(gunicorn.proc[w], u, n)
          IN  gunicorn' = [ fetches |-> n,
                            proc |-> [gunicorn.proc EXCEPT ![w] =
                                        [p EXCEPT !.initialized = TRUE,
                                                  !.initRuns = p.initRuns + 1,
                                                  !.served = p.cache.gen]] ]
    /\ UNCHANGED processVars

\* finance.py:224-230: the periodic thread of worker w calls
\* update_finance_events. The guard on fetches bounds the model.
WorkerRefresh(w) ==
    /\ gunicorn.proc[w].initialized
    /\ gunicorn.fetches < workers + MaxCycles
    /\ \E u \in Scenarios :
          LET n == gunicorn.fetches + 1
          IN  gunicorn' = [ fetches |-> n,
                            proc |-> [gunicorn.proc EXCEPT ![w] =
                                        WorkerUpdate(gunicorn.proc[w], u, n)] ]
    /\ UNCHANGED processVars

\* finance.py:261-278: worker w serves a read from its own cache.
WorkerServe(w) ==
    /\ gunicorn.proc[w].initialized
    /\ gunicorn' = [gunicorn EXCEPT !.proc[w].served = gunicorn.proc[w].cache.gen]
    /\ UNCHANGED processVars

NextWorkers ==
    \/ \E w \in Workers : Fork(w)
    \/ \E w \in Workers : WorkerInit(w)
    \/ \E w \in Workers : WorkerRefresh(w)
    \/ \E w \in Workers : WorkerServe(w)

SpecWorkers == Init /\ [][NextWorkers]_vars

\* ------------------------------------------------------------------------
\* Properties
\* ------------------------------------------------------------------------
\* Program points inside the fetch/transform/publish body of
\* update_finance_events (after the flag was claimed, before the return).
RefreshBody == {"u_fetch", "u_test", "u_pub1", "u_pub2", "u_pub3"}

InBody == {t \in Threads : pc[t] \in RefreshBody}

\* C1: at most one thread is inside the refresh body, and a call that finds
\* a refresh in flight starts no fetch: it goes to the skip branch and
\* changes nothing but its own program point.
C1_SingleRefresh ==
    [][ /\ Cardinality({t \in Threads : pc'[t] \in RefreshBody}) <= 1
        /\ \A t \in Threads :
              (pc[t] = "u_enter" /\ pc'[t] # "u_enter" /\ InBody # {})
                 => /\ pc'[t] = "u_skip"
                    /\ UNCHANGED << cached_finance_events, last_update, is_updating,
                                    clock, upstream, events, pubLog, pubTs >> ]_vars

\* C1 witness: a refresh is in flight and another call has been coalesced.
C1_Witness ==
    \E t1, t2 \in Threads : pc[t1] = "u_fetch" /\ pc[t2] = "u_skip"

\* C2: the in-progress flag is set only while some thread is inside the
\* refresh body, so a cycle that ended without usable data has reset it.
C2_IdleAfterFailure == is_updating => InBody # {}

\* The timestamp that was written with the snapshot of generation g
\* (0 for the initial empty list, -1 while none has been written).
PublishedTs(g) ==
    IF g = 0 THEN 0
    ELSE IF \E i \in 1..Len(pubTs) : pubLog[i] = g
         THEN pubTs[CHOOSE i \in 1..Len(pubTs) : pubLog[i] = g]
         ELSE -1

\* C3: every finished full-dump or paginated response is built from one
\* snapshot: count (total, has_more) agree with the list the data was
\* taken from and last_update is the timestamp published with it.
C3_NoTornRead ==
    \A t \in Req :
       (resp[t].ready /\ ~resp[t].initializing) =>
          /\ req[t].kind = "full" =>
                /\ resp[t].count = Len(resp[t].data)
                /\ resp[t].last_update = PublishedTs(resp[t].src)
          /\ req[t].kind = "page" =>
                /\ resp[t].total = resp[t].srclen
                /\ resp[t].has_more = (resp[t].offset + resp[t].limit < resp[t].srclen)

\* The step in which request thread t loads the cache for its data field.
DataLoad(t) ==
    \/ pc[t] = "h_full" /\ pc'[t] = "h_full2"
    \/ pc[t] = "h_page" /\ pc'[t] = "h_page2"

\* C4: the cache and last_update change only in the publish steps of a
\* cycle that produced events, and once a snapshot has been published
\* every read is a success response carrying the most recently published
\* snapshot, whatever later cycles did.
C4_StaleKept ==
    [][ /\ (cached_finance_events' # cached_finance_events \/ last_update' # last_update)
             => \E t \in Threads :
                   /\ pc[t] \in {"u_pub1", "u_pub2"}
                   /\ events[t].events # <<>>
                   /\ cached_finance_events' = events[t]
        /\ \A t \in Req :
              (DataLoad(t) /\ pubLog # <<>>)
                 => /\ resp'[t].success
                    /\ ~resp'[t].initializing
                    /\ resp'[t].src = pubLog[Len(pubLog)]
                    /\ resp'[t].srclen > 0
                    /\ req[t].kind = "full" => Len(resp'[t].data) = resp'[t].srclen ]_vars

\* C4 witness: a cycle after the last publication built a list that was
\* never published and has returned, the cache still holds the published
\* snapshot, and a reader has been given that snapshot.
C4_Witness ==
    /\ pubLog # <<>>
    /\ clock > pubLog[Len(pubLog)]
    /\ InBody = {}
    /\ cached_finance_events.gen = pubLog[Len(pubLog)]
    /\ \E t \in Req : /\ resp[t].ready
                      /\ req[t].kind = "full"
                      /\ resp[t].src = cached_finance_events.gen
                      /\ resp[t].data # <<>>

\* Program points of a request thread after ensure_initialized returned.
PastInit(t) ==
    \/ pc[t] \in {"h_full", "h_full2", "h_full3", "h_page", "h_page2", "h_page3",
                  "h_health", "h_health2", "h_refresh"}
    \/ pc[t] = "idle" /\ resp[t].ready

\* C5: ensure_initialized starts the initial refresh at most once and the
\* background thread at most once; a caller that is past it finds both
\* done, the initial refresh finished and the flag set.
C5_ExactlyOnceInit ==
    /\ initRuns <= 1
    /\ bgStarts <= 1
    /\ \A t \in Req :
          PastInit(t) =>
             /\ initRuns = 1
             /\ bgStarts = 1
             /\ initialized
             /\ init_lock # t
             /\ \A t2 \in Req : pc[t2] \notin (RefreshBody \cup {"u_enter", "u_skip", "ei_bg", "ei_set"})

\* C5 witness: two first callers raced; one ran the initialization and is
\* past it, the other had seen initialized = False and is at the lock.
C5_Witness ==
    \E t1, t2 \in Req :
       /\ t1 # t2
       /\ PastInit(t1)
       /\ pc[t2] = "ei_lock"
       /\ initialized

\* C6: every full-dump or paginated response whose data was produced
\* before any snapshot was published is flagged initializing with empty
\* data.
C6_InitializingUntilPublished ==
    \A t \in Req :
       (resp[t].ready /\ req[t].kind \in {"full", "page"} /\ resp[t].src = 0)
          => (resp[t].initializing /\ resp[t].data = <<>>)

\* C7: a read never returns a snapshot older than one that any earlier
\* read has returned (generations are numbered in build order).
C7_MonotonicReads ==
    [][ \A t \in Req : DataLoad(t) => resp'[t].src >= seen ]_vars

\* C7 witness: one reader holds a published snapshot and another reader
\* has since been given a newer one.
C7_Witness ==
    \E t1, t2 \in Req :
       /\ resp[t1].ready /\ req[t1].kind \in {"full", "page"}
       /\ resp[t1].src >= 1
       /\ pc[t2] \in {"h_full2", "h_page2"}
       /\ resp[t2].src > resp[t1].src

\* A force-refresh request thread waits for a fetch: it runs the refresh
\* itself, or it is blocked on init_lock while the holder refreshes.
WaitsForFetch(t) ==
    \/ pc[t] \in RefreshBody \cup {"u_enter", "u_skip"}
    \/ pc[t] = "ei_lock" /\ init_lock # 0

\* C8 (as claimed): a force-refresh request never waits for a fetch, in
\* any state of the process.
C8_NeverWaits ==
    \A t \in Req : req[t].kind = "refresh" => ~WaitsForFetch(t)

\* C8 (amended): once initialization has completed, a force-refresh
\* request never waits for a fetch: its thread only passes the
\* initialized check, starts the refresh thread and acknowledges.
C8_NeverWaitsOnceInitialized ==
    \A t \in Req :
       (req[t].kind = "refresh" /\ initialized)
          => /\ ~WaitsForFetch(t)
             /\ pc[t] \in {"ei_check", "ei_lock", "h_refresh", "idle"}

\* C8 witness: a force-refresh request has been acknowledged while the
\* periodic refresh is fetching and the thread it started is at the
\* entry of update_finance_events or being skipped.
C8_Witness ==
    \E t \in Req, f \in ForceT :
       /\ req[t].kind = "refresh" /\ resp[t].ready /\ pc[t] = "idle"
       /\ pc[BgT] = "u_fetch"
       /\ pc[f] \in {"u_enter", "u_skip"}

\* The page list of offset o as the aggregation sees it (error = empty).
PageOf(up, o) == IF up[o].err THEN <<>> ELSE up[o].body

RECURSIVE SequentialWalk(_, _)
\* The sequence a sequential crawl gives: pages in ascending offset order
\* from page number k on, up to and including the first page shorter than
\* limit.
SequentialWalk(up, k) ==
    IF k >= NumPages THEN <<>>
    ELSE LET page == PageOf(up, k * limit)
         IN  IF Len(page) < limit THEN page
             ELSE page \o SequentialWalk(up, k + 1)

\* C9: the reassembled sequence of a cycle equals the sequential walk of
\* its pages.
C9_ReassemblyIsSequentialWalk ==
    \A t \in Threads :
       pc[t] \in {"u_test", "u_pub1"} => Reassemble(upstream[t]) = SequentialWalk(upstream[t], 0)

\* C10: a cycle whose fetch of offset 0 failed changes neither the cache
\* nor last_update.
C10_FirstPageFailureFailsCycle ==
    [][ \A t \in Threads :
           (pc[t] \in {"u_test", "u_pub1", "u_pub2"} /\ upstream[t][0].err)
              => /\ cached_finance_events' = cached_finance_events
                 /\ last_update' = last_update ]_vars

\* A record the pipeline keeps when every unparsable numeric field counts as
\* 0: it has a finance tag, activity, and a market with activity.
Survives(e) ==
    /\ is_finance(e)
    /\ ~EventDropped(e)
    /\ FormatMarkets(e.markets, Len(e.markets)) # <<>>

\* C11: a malformed field never aborts a refresh cycle: in the list a cycle
\* builds, every upstream record that survives the gates with its
\* unparsable numeric fields read as 0 is present, with those fields 0 and a
\* malformed outcomePrices string read as the empty list.
C11_MalformedNeverAborts ==
    \A t \in Threads :
        pc[t] = "u_test" =>
            LET all == Reassemble(upstream[t])
                out == events[t].events
            IN  \A j \in 1..Len(all) :
                    Survives(all[j]) =>
                        \E i \in 1..Len(out) :
                            /\ out[i].id = all[j].id
                            /\ out[i].volume = Coerce(all[j].volume)
                            /\ out[i].liquidity = Coerce(all[j].liquidity)
                            /\ out[i].markets =
                                  FormatMarkets(all[j].markets, Len(all[j].markets))

\* The market gates every cached event passed: market_count is the number
\* of its markets and at least 1, and no market has volume and liquidity
\* both 0.
MarketGates(e) ==
    /\ e.market_count >= 1
    /\ e.market_count = Len(e.markets)
    /\ \A j \in 1..Len(e.markets) :
          ~(e.markets[j].volume = 0 /\ e.markets[j].liquidity = 0)

\* C12 as stated: every cached event passed the market gates and has
\* volume > 0 or liquidity > 0.
C12_ActivityPositive ==
    \A i \in 1..Len(cached_finance_events.events) :
        LET e == cached_finance_events.events[i]
        IN  MarketGates(e) /\ (e.volume > 0 \/ e.liquidity > 0)

\* C12, amended: every cached event passed the market gates and does not
\* have volume and liquidity both equal to 0.
C12_ActivityNonZero ==
    \A i \in 1..Len(cached_finance_events.events) :
        LET e == cached_finance_events.events[i]
        IN  MarketGates(e) /\ ~(e.volume = 0 /\ e.liquidity = 0)

\* A cached event with one of its fields 0 whose market has one of its
\* fields 0, published by a cycle that dropped a record before it.
C12_Witness ==
    \E i \in 1..Len(cached_finance_events.events) :
        LET e == cached_finance_events.events[i]
        IN  /\ e.volume = 0 /\ e.liquidity > 0
            /\ e.rank < e.id
            /\ \E j \in 1..Len(e.markets) :
                  e.markets[j].volume = 0 /\ e.markets[j].liquidity > 0

\* Position of the record with this id in a sequence of upstream records
\* (0 when absent).
PosOf(all, id) ==
    IF \E k \in 1..Len(all) : all[k].id = id
       THEN CHOOSE k \in 1..Len(all) : all[k].id = id
       ELSE 0

\* C13: the event at position i of the cached list has rank i (ranks are
\* 1..N without gaps, whatever was dropped), and the list a cycle builds
\* keeps the relative order of the reassembled upstream sequence.
C13_RankAndOrder ==
    /\ \A i \in 1..Len(cached_finance_events.events) :
          cached_finance_events.events[i].rank = i
    /\ \A t \in Threads :
          pc[t] \in {"u_test", "u_pub1", "u_pub2", "u_pub3"} =>
             LET all == Reassemble(upstream[t])
                 out == events[t].events
             IN  /\ \A i \in 1..Len(out) :
                       out[i].rank = i /\ PosOf(all, out[i].id) >= 1
                 /\ \A i, j \in 1..Len(out) :
                       i < j => PosOf(all, out[i].id) < PosOf(all, out[j].id)

\* A snapshot just assigned to the cache whose second event is the third
\* upstream record: the record between them was dropped.
C13_Witness ==
    /\ pc[SeqT] = "u_pub2"
    /\ Len(cached_finance_events.events) >= 2
    /\ cached_finance_events.events[2].id = 3
    /\ cached_finance_events.events[2].rank = 2

Max(a, b) == IF a > b THEN a ELSE b

\* C14: a paginated response to in-range parameters (offset >= 0, limit in
\* 1..200), served with no concurrent swap, holds exactly the elements of
\* the full list at 0-based positions offset .. offset+limit-1 that exist;
\* total is the full length, count the slice length, and has_more is true
\* exactly when offset + limit < total.
C14_PageIsSlice ==
    \A t \in Req :
        ( /\ resp[t].ready /\ req[t].kind = "page" /\ ~resp[t].initializing
          /\ req[t].offset >= 0
          /\ req[t].limit >= 1 /\ req[t].limit <= MaxLimit ) =>
            LET full == cached_finance_events.events
                n    == Max(0, Min(req[t].limit, Len(full) - req[t].offset))
            IN  /\ Len(resp[t].data) = n
                /\ \A i \in 1..n : resp[t].data[i] = full[req[t].offset + i]
                /\ resp[t].total = Len(full)
                /\ resp[t].count = n
                /\ resp[t].has_more = (req[t].offset + req[t].limit < Len(full))

\* A page of one element from the middle of a three-element list, with more
\* to come.
C14_Witness ==
    /\ resp[SeqT].ready /\ req[SeqT].kind = "page"
    /\ req[SeqT].offset = 1 /\ req[SeqT].limit = 1
    /\ Len(cached_finance_events.events) = 3
    /\ resp[SeqT].count = 1
    /\ resp[SeqT].has_more

\* C15: every integer offset and limit gets a success response, never an
\* error: the effective offset is max(offset, 0) and the effective limit is
\* the requested one when it is in 1..200 and 100 otherwise.
C15_Clamping ==
    \A t \in Req :
        (resp[t].ready /\ req[t].kind = "page" /\ ~resp[t].initializing) =>
            /\ resp[t].success
            /\ resp[t].offset = Max(req[t].offset, 0)
            /\ resp[t].limit = IF req[t].limit >= 1 /\ req[t].limit <= 200
                                  THEN req[t].limit ELSE 100
            /\ resp[t].count <= resp[t].limit

\* Responses to offset=-5 with limit=100000 and with limit=0.
C15_Witness ==
    /\ resp[SeqT].ready /\ req[SeqT].kind = "page"
    /\ req[SeqT].offset = -5
    /\ req[SeqT].limit \in {0, 100000}
    /\ resp[SeqT].count >= 1

\* A request thread is blocked on a lock whose holder is inside a refresh:
\* on init_lock in ensure_initialized, or on update_lock in health_check.
BlockedOnRefresh(t) ==
    \/ /\ pc[t] = "ei_lock"
       /\ init_lock \notin {0, t}
       /\ pc[init_lock] \in RefreshBody
    \/ /\ pc[t] = "h_health"
       /\ update_lock \notin {0, t}
       /\ pc[update_lock] \in {"u_fetch", "u_test"}

\* C16: no read request other than the one that runs the initial refresh
\* itself ever waits for a refresh: a full-dump, paginated or health request
\* is never blocked on a lock whose holder is inside a refresh, also when it
\* arrives while the first request's initial refresh is running.
C16_OnlyFirstRequestWaits ==
    \A t \in Req :
        req[t].kind \in {"full", "page", "health"} => ~BlockedOnRefresh(t)

\* Program points of the periodic thread while its loop is alive: asleep,
\* or inside a call of update_finance_events.
LoopAlive == {"bg_sleep", "u_enter", "u_skip"} \cup RefreshBody

\* C17: once started, the periodic thread never leaves its loop: whatever
\* the outcome of a cycle (published, empty result, skipped), it is asleep
\* or inside a call, and while it is asleep the next call is possible in
\* every state of the flag and the cache (up to the cycles the model draws).
C17_LoopNeverEnds ==
    bgStarts >= 1 =>
        /\ pc[BgT] \in LoopAlive
        /\ (pc[BgT] = "bg_sleep" /\ clock < MaxCycles) => ENABLED BgWake

\* The periodic thread has been called again after a cycle that ended with
\* an empty result, and is taking the skip branch.
C17_Witness ==
    /\ pc[BgT] = "u_skip"
    /\ InBody = {}
    /\ is_updating
    /\ bgStarts = 1

\* C18: the cache is initialized once and shared by the workers: all
\* workers together run the initial refresh at most once, and two workers
\* that serve requests hold the same snapshot.
C18_SharedCache ==
    /\ \A w1, w2 \in Workers :
          w1 # w2 => gunicorn.proc[w1].initRuns + gunicorn.proc[w2].initRuns <= 1
    /\ \A w1, w2 \in Workers :
          (gunicorn.proc[w1].initialized /\ gunicorn.proc[w2].initialized)
             => gunicorn.proc[w1].cache = gunicorn.proc[w2].cache

\* C19: an empty result is never published. A list on its way into the
\* cache is non-empty; the cache and last_update change only inside one
\* hold of update_lock, so outside the lock last_update is non-zero exactly
\* when a refresh has published (and never non-zero before one); and a
\* non-empty cache never becomes empty again.
C19_EmptyNeverPublished ==
    /\ [] /\ \A t \in Threads :
               pc[t] \in {"u_pub1", "u_pub2", "u_pub3"} => events[t].events # <<>>
          /\ (cached_finance_events.events # <<>>) <=> (pubLog # <<>>)
          /\ last_update # 0 => pubLog # <<>>
          /\ update_lock = 0 =>
                /\ Len(pubTs) = Len(pubLog)
                /\ (last_update # 0) <=> (pubLog # <<>>)
    /\ [][ /\ cached_finance_events' # cached_finance_events
              => /\ update_lock = 0 /\ update_lock' # 0
                 /\ pc[update_lock'] = "u_pub1"
           /\ last_update' # last_update
              => /\ update_lock # 0 /\ update_lock' = update_lock
                 /\ pc[update_lock] = "u_pub2"
           /\ cached_finance_events.events # <<>>
              => cached_finance_events'.events # <<>> ]_vars

\* One refresh has published and a later one has ended with an empty
\* result: the cache is still the published list.
C19_Witness ==
    /\ cached_finance_events.events # <<>>
    /\ pubLog = << 1 >>
    /\ last_update = 1
    /\ clock = 2
    /\ InBody = {}
    /\ update_lock = 0

\* Program points inside a call of update_finance_events.
InUpdate == {"u_enter", "u_skip"} \cup RefreshBody

\* The lock a thread is waiting for, as the thread that holds it (0: none).
WaitsOn(t) ==
    IF pc[t] = "ei_lock" /\ init_lock \notin {0, t} THEN init_lock
    ELSE IF pc[t] \in {"u_enter", "u_pub1", "h_health"} /\ update_lock \notin {0, t}
            THEN update_lock
    ELSE 0

\* C20: the two locks cannot deadlock and every call returns. update_lock
\* is held only over the assignments of a publication, never across a
\* fetch and never by a thread that waits for a lock; init_lock is held
\* only by a thread inside ensure_initialized; a thread that waits for a
\* lock waits for a holder that is fetching or can take a step, and that
\* waits for no lock itself. With fair scheduling and
\* terminating fetches, every call of ensure_initialized reaches its
\* handler and every call of update_finance_events returns.
C20_NoDeadlock ==
    /\ [] /\ update_lock # 0 => pc[update_lock] \in {"u_pub2", "u_pub3"}
          /\ init_lock # 0 =>
                pc[init_lock] \in InUpdate \cup {"ei_bg", "ei_set"}
          /\ \A t \in Threads :
                WaitsOn(t) # 0 =>
                    /\ WaitsOn(WaitsOn(t)) = 0
                    /\ pc[WaitsOn(t)] = "u_fetch" \/ ENABLED CallStep(WaitsOn(t))
    /\ \A t \in Req : (pc[t] \in {"ei_check", "ei_lock"}) ~> PastInit(t)
    /\ \A t \in Threads : (pc[t] = "u_enter") ~> (pc[t] \notin InUpdate)

\* A thread waits for update_lock while another thread, which holds it, is
\* publishing.
C20_Witness ==
    \E t \in Threads :
        /\ pc[t] \in {"u_enter", "h_health"}
        /\ update_lock \notin {0, t}
        /\ pc[update_lock] \in {"u_pub2", "u_pub3"}

============================================================================
